---- MODULE Spec2Model ----
(***************************************************************************)
(* A model of app.py of the fedfunds dashboard: the Streamlit script that  *)
(* loads FRED series, derives percent changes, merges the frames on        *)
(* "date", optionally z-scores them and charts them, and the crawler       *)
(* get_all_fred_metadata.                                                  *)
(*                                                                         *)
(* Numbers are modelled exactly: a float is a record [k, n, d] that is a   *)
(* finite rational n/d (k = "fin"), NaN (k = "nan"), a signed infinity     *)
(* (k = "inf", n = +1 or -1) or, for a z-score, sign * sqrt(n/d) held as   *)
(* k = "sqrt" with the sign folded into n.                                 *)
(***************************************************************************)
EXTENDS Integers, Sequences, FiniteSets, TLC

(***************************************************************************)
(* Bounds of the model.                                                    *)
(***************************************************************************)
\* the calendar of the run model: dates 1..MaxDate
MaxDate == 2
\* the user picks among the first MaxOptions options of the multiselect
MaxOptions == 2
\* and selects at most MaxSelected of them
MaxSelected == 2
\* category ids of the metadata crawl are 0..NumCats-1
NumCats == 3
\* a series given to pct_change has periods + 1 .. periods + MaxExtra observations
MaxExtra == 1
\* and at most MaxIrregular of its observations differ from the base value
MaxIrregular == 2
\* the frames handed to the merge alone carry dates 1..MaxAlignDate
MaxAlignDate == 2
\* the category graph has at most MaxEdges parent-child links
MaxEdges == 4

(***************************************************************************)
(* Floats.                                                                 *)
(***************************************************************************)
NaN == [k |-> "nan", n |-> 0, d |-> 1]

Inf(s) == [k |-> "inf", n |-> s, d |-> 1]

Abs(x) == IF x < 0 THEN -x ELSE x

Sign(x) == IF x < 0 THEN -1 ELSE IF x = 0 THEN 0 ELSE 1

RECURSIVE Gcd(_, _)
Gcd(a, b) == IF b = 0 THEN a ELSE Gcd(b, a % b)

\* the rational n/d (d # 0) in lowest terms with a positive denominator
Rat(n, d) ==
    LET g == Gcd(Abs(n), Abs(d))
        s == IF d < 0 THEN -1 ELSE 1
    IN  [k |-> "fin", n |-> (s * n) \div g, d |-> (s * d) \div g]

Fin(n) == [k |-> "fin", n |-> n, d |-> 1]

IsNull(x) == x.k = "nan"

IsFinite(x) == x.k = "fin"

FNeg(a) == IF a.k = "nan" THEN NaN ELSE [a EXCEPT !.n = -a.n]

\* a + b in IEEE arithmetic: NaN propagates, inf + (-inf) is NaN
FAdd(a, b) ==
    IF a.k = "nan" \/ b.k = "nan" THEN NaN
    ELSE IF a.k = "inf" /\ b.k = "inf" THEN (IF a.n = b.n THEN a ELSE NaN)
    ELSE IF a.k = "inf" THEN a
    ELSE IF b.k = "inf" THEN b
    ELSE Rat(a.n * b.d + b.n * a.d, a.d * b.d)

FSub(a, b) == FAdd(a, FNeg(b))

\* a * b: 0 * inf is NaN
FMul(a, b) ==
    IF a.k = "nan" \/ b.k = "nan" THEN NaN
    ELSE IF a.k = "inf" \/ b.k = "inf"
         THEN (IF a.n = 0 \/ b.n = 0 THEN NaN ELSE Inf(Sign(a.n) * Sign(b.n)))
    ELSE Rat(a.n * b.n, a.d * b.d)

\* a / b: x / 0 is a signed infinity for x # 0 and NaN for 0 / 0; no error is raised
FDiv(a, b) ==
    IF a.k = "nan" \/ b.k = "nan" THEN NaN
    ELSE IF a.k = "inf" THEN (IF b.k = "inf" THEN NaN
                              ELSE Inf(a.n * (IF b.n < 0 THEN -1 ELSE 1)))
    ELSE IF b.k = "inf" THEN Fin(0)
    ELSE IF b.n = 0 THEN (IF a.n = 0 THEN NaN ELSE Inf(Sign(a.n)))
    ELSE Rat(a.n * b.d, a.d * b.n)

(***************************************************************************)
(* Series.pct_change(periods) * 100, lines 106 and 110.                    *)
(***************************************************************************)
GdpLag == 4

CpiLag == 12

\* fillna(method="pad"): a NaN takes the last value before it, a leading NaN stays
Pad(S) ==
    LET p[i \in 0..Len(S)] ==
            IF i = 0 THEN NaN
            ELSE IF IsNull(S[i]) THEN p[i - 1] ELSE S[i]
    IN  [i \in 1..Len(S) |-> p[i]]

\* Series.shift(periods)
Shift(S, periods) ==
    [i \in 1..Len(S) |-> IF i - periods >= 1 THEN S[i - periods] ELSE NaN]

\* data / data.shift(periods) - 1, with data padded first where the installed
\* pandas still pads by default (fill = "pad") and left alone where it does not
PctChangeNoScale(S, periods, fill) ==
    LET data    == IF fill = "pad" THEN Pad(S) ELSE S
        shifted == Shift(data, periods)
    IN  [i \in 1..Len(S) |-> FSub(FDiv(data[i], shifted[i]), Fin(1))]

PctChange(S, periods, fill) ==
    LET rs == PctChangeNoScale(S, periods, fill)
    IN  [i \in 1..Len(S) |-> FMul(rs[i], Fin(100))]

(***************************************************************************)
(* Data frames.  A frame is [columns, rows]: the names of its columns      *)
(* other than "date", in order, and its rows in order, each a date and one *)
(* float per column.                                                       *)
(***************************************************************************)
EmptyFrame == [columns |-> << >>, rows |-> << >>]

Range(f) == {f[i] : i \in DOMAIN f}

Column(frame, name) ==
    LET j == CHOOSE i \in DOMAIN frame.columns : frame.columns[i] = name
    IN  [r \in DOMAIN frame.rows |-> frame.rows[r].v[j]]

HasColumn(frame, name) == name \in Range(frame.columns)

DatesOf(frame) == {frame.rows[r].date : r \in DOMAIN frame.rows}

\* s.to_frame(name=...).reset_index() with "index" renamed to "date", lines 82-84 and 255-257
ToFrame(obs, name) ==
    [columns |-> <<name>>,
     rows    |-> [r \in DOMAIN obs |-> [date |-> obs[r].date, v |-> <<obs[r].value>>]]]

\* df.rename(columns={old: new}, inplace=True): a name that is absent is left alone
Rename(frame, old, new) ==
    [frame EXCEPT !.columns =
        [i \in DOMAIN frame.columns |->
            IF frame.columns[i] = old THEN new ELSE frame.columns[i]]]

\* df[name] = values: a new column is appended, an existing one is replaced
SetColumn(frame, name, values) ==
    IF HasColumn(frame, name)
    THEN LET j == CHOOSE i \in DOMAIN frame.columns : frame.columns[i] = name
         IN  [frame EXCEPT !.rows =
                [r \in DOMAIN frame.rows |->
                    [frame.rows[r] EXCEPT !.v[j] = values[r]]]]
    ELSE [columns |-> Append(frame.columns, name),
          rows    |-> [r \in DOMAIN frame.rows |->
                          [frame.rows[r] EXCEPT !.v = Append(@, values[r])]]]

\* df[["date", name]]
Project(frame, name) ==
    [columns |-> <<name>>,
     rows    |-> [r \in DOMAIN frame.rows |->
                     [date |-> frame.rows[r].date, v |-> <<Column(frame, name)[r]>>]]]

RECURSIVE SortedSeq(_)
SortedSeq(S) ==
    IF S = {} THEN << >>
    ELSE LET m == CHOOSE x \in S : \A y \in S : x <= y
         IN  <<m>> \o SortedSeq(S \ {m})

Nulls(n) == [i \in 1..n |-> NaN]

RECURSIVE Flatten(_)
Flatten(ss) == IF ss = << >> THEN << >> ELSE Head(ss) \o Flatten(Tail(ss))

\* the rows an outer join gives for one key: every pairing of the left rows and
\* the right rows that carry it, and a row filled with NaN on the side that has none
RowsForKey(left, right, key) ==
    LET lrows == SelectSeq(left.rows, LAMBDA r : r.date = key)
        rrows == SelectSeq(right.rows, LAMBDA r : r.date = key)
        lnull == <<[date |-> key, v |-> Nulls(Len(left.columns))]>>
        rnull == <<[date |-> key, v |-> Nulls(Len(right.columns))]>>
        ls    == IF lrows = << >> THEN lnull ELSE lrows
        rs    == IF rrows = << >> THEN rnull ELSE rrows
    IN  Flatten([i \in DOMAIN ls |->
                    [j \in DOMAIN rs |-> [date |-> key, v |-> ls[i].v \o rs[j].v]]])

\* a variant that keeps only the dates both frames carry (how="inner")
InnerKeys(left, right) == SortedSeq(DatesOf(left) \cap DatesOf(right))

\* the keys of pd.merge(left, right, on="date", how="outer"): the union, sorted
OuterKeys(left, right) == SortedSeq(DatesOf(left) \cup DatesOf(right))

\* a variant that leaves a shared column name as it is
SuffixNone(name, side) == name

\* pd.merge's suffixes ("_x", "_y") for a column name both frames carry
Suffix(name, side) == name \o side

\* pd.merge(left, right, on="date", how="outer"), lines 119-121 and 389
Merge(left, right) ==
    LET overlap == Range(left.columns) \cap Range(right.columns)
        lcols   == [i \in DOMAIN left.columns |->
                       IF left.columns[i] \in overlap
                       THEN Suffix(left.columns[i], "_x") ELSE left.columns[i]]
        rcols   == [i \in DOMAIN right.columns |->
                       IF right.columns[i] \in overlap
                       THEN Suffix(right.columns[i], "_y") ELSE right.columns[i]]
        keys    == OuterKeys(left, right)
    IN  [columns |-> lcols \o rcols,
         rows    |-> Flatten([i \in DOMAIN keys |-> RowsForKey(left, right, keys[i])])]

\* functools.reduce(lambda left, right: pd.merge(...), df_list) of a list that is not empty
RECURSIVE Reduce(_)
Reduce(list) ==
    IF Len(list) = 1 THEN list[1]
    ELSE Merge(Reduce(SubSeq(list, 1, Len(list) - 1)), list[Len(list)])

RECURSIVE InsertRow(_, _)
InsertRow(sorted, row) ==
    IF sorted = << >> THEN <<row>>
    ELSE IF sorted[Len(sorted)].date <= row.date THEN Append(sorted, row)
    ELSE Append(InsertRow(SubSeq(sorted, 1, Len(sorted) - 1), row), sorted[Len(sorted)])

RECURSIVE SortRows(_)
SortRows(rows) ==
    IF rows = << >> THEN << >>
    ELSE InsertRow(SortRows(SubSeq(rows, 1, Len(rows) - 1)), rows[Len(rows)])

\* df.sort_values("date")
SortValues(frame) == [frame EXCEPT !.rows = SortRows(frame.rows)]

(***************************************************************************)
(* The z-score of lines 370-377: (col - col.mean()) / col.std().           *)
(***************************************************************************)
RECURSIVE FSum(_)
FSum(xs) == IF xs = << >> THEN Fin(0) ELSE FAdd(Head(xs), FSum(Tail(xs)))

NonNull(xs) == SelectSeq(xs, LAMBDA x : ~IsNull(x))

\* Series.mean(): NaN is skipped; the mean of nothing is NaN
Mean(xs) == FDiv(FSum(NonNull(xs)), Fin(Len(NonNull(xs))))

\* the square of Series.std(): ddof = 1, NaN is skipped, NaN unless two values remain
Variance(xs) ==
    LET ys == NonNull(xs)
        m  == Mean(xs)
    IN  IF Len(ys) < 2 THEN NaN
        ELSE FDiv(FSum([i \in DOMAIN ys |-> FMul(FSub(ys[i], m), FSub(ys[i], m))]),
                  Fin(Len(ys) - 1))

\* dev / sqrt(var).  An infinite variance only comes with deviations that are
\* infinite or NaN, and inf / inf is NaN; a zero variance gives 0 / 0 = NaN
DivSqrt(dev, var) ==
    IF ~IsFinite(dev) \/ ~IsFinite(var) THEN NaN
    ELSE IF var.n = 0 THEN (IF dev.n = 0 THEN NaN ELSE Inf(Sign(dev.n)))
    ELSE LET q == FDiv(FMul(dev, dev), var)
         IN  [k |-> "sqrt", n |-> Sign(dev.n) * q.n, d |-> q.d]

ZScoreColumn(xs) ==
    [i \in DOMAIN xs |-> DivSqrt(FSub(xs[i], Mean(xs)), Variance(xs))]

\* df_z = df.copy(); for col in df.columns: if col != "date": df_z[col] = ...
ZScore(frame) ==
    [frame EXCEPT !.rows =
        [r \in DOMAIN frame.rows |->
            [frame.rows[r] EXCEPT !.v =
                [j \in DOMAIN frame.columns |->
                    ZScoreColumn([q \in DOMAIN frame.rows |-> frame.rows[q].v[j]])[r]]]]]

(***************************************************************************)
(* The script's configuration.                                             *)
(***************************************************************************)
Regions == <<"National", "Missouri", "Kansas">>

\* series_map, lines 311-337: the "Missouri" entry is commented out
series_map ==
    [National |->
        << <<"Federal Funds Rate", "FEDFUNDS">>,
           <<"Unemployment Rate", "UNRATE">>,
           <<"GDP Growth %", "GDPC1">>,
           <<"Inflation %", "CPIAUCNS">> >>,
     Kansas |->
        << <<"Unemployment Rate", "KSUR">>,
           <<"State Minimum Wage Rate", "STTMINWGKS">>,
           <<"Resident Population per thousands", "KSPOP">>,
           <<"Gross Domestic Product: All Industry Total (Quarterly, SAAR)", "KSNQGSP">>,
           <<"All-Transactions House Price Index", "KSSTHPI">>,
           <<"Real Median Household Income", "MEHOINUSKSA672N">>,
           <<"Per Capita Personal Income", "KSPCPI">>,
           <<"Median Household Income", "MEHOINUSKSA646N">>,
           <<"Labor Force Participation Rate", "LBSSA20">>,
           <<"SNAP Benefits Recipients", "BRKS20M647NCEN">>,
           <<"Housing Inventory: Median Listing Price", "MEDLISPRIKS">>,
           <<"Homeownership Rate", "KSHOWN">> >>]

\* list(series_map[region].keys()), line 341
SeriesOptions(reg) == [i \in DOMAIN series_map[reg] |-> series_map[reg][i][1]]

\* series_map[region][var], lines 355 and 362
SeriesId(reg, var) ==
    LET i == CHOOSE j \in DOMAIN series_map[reg] : series_map[reg][j][1] = var
    IN  series_map[reg][i][2]

\* series_options of the first dashboard, line 125
FirstOptions ==
    <<"Federal Funds Rate", "Unemployment Rate", "GDP Growth %", "Inflation %">>

Min(a, b) == IF a < b THEN a ELSE b

\* what st.multiselect can return: the labels picked, in the order picked
Selections(options) ==
    LET offered == {options[i] : i \in 1..Min(MaxOptions, Len(options))}
    IN  {sel \in UNION {[1..n -> offered] : n \in 0..MaxSelected} :
            \A i, j \in DOMAIN sel : i # j => sel[i] # sel[j]}

(***************************************************************************)
(* FRED.  The database holds one observation per date for a monthly series *)
(* and one per odd date for the others; the values are the world's: flat   *)
(* (every observation 1) or rising (the observation of date d is d).       *)
(***************************************************************************)
Dates == 1..MaxDate

MonthlyIds == {"FEDFUNDS", "UNRATE", "CPIAUCNS", "KSUR", "LBSSA20", "MEDLISPRIKS"}

Worlds == {[d \in Dates |-> Fin(1)], [d \in Dates |-> Fin(d)]}

\* fred.get_series(series_id, observation_start=start, observation_end=end), when it returns
GetSeries(w, id, s, e) ==
    LET ds == SortedSeq({d \in Dates : /\ s <= d /\ d <= e
                                       /\ (id \in MonthlyIds \/ d % 2 = 1)})
    IN  [i \in DOMAIN ds |-> [date |-> ds[i], value |-> w[ds[i]]]]

\* what fred.get_series raises: fredapi's ValueError for a request FRED refuses,
\* the transport's own error when FRED is not reached
FetchErrors == {"ValueError", "URLError"}

\* a variant without the range check
RangeAlwaysValid(s, e) == FALSE

\* start > end, lines 74 and 303
RangeInvalid(s, e) == s > e

VARIABLES
    pc,               \* the statement the script is at
    status,           \* "running", the message of st.error, or the exception raised
    world,            \* FRED's data
    start, end,       \* the date inputs
    cache,            \* the entries of st.cache_data: <<function, series_id, start, end>>
    nfetch,           \* fred.get_series calls made by each of the two load_fred_series
    df, df_fed, df_unemp, df_gdp, df_cpi,
    region, selected_series, use_zscore,
    df_list, failed_series, df_to_plot,
    idx,              \* the position of a for loop over selected_series
    charted,          \* the frame the traces given to st.plotly_chart were read from
    fetch_failed,     \* the labels of the region dashboard whose fetch raised
    pct_fill,         \* whether the installed pandas pads before pct_change
    pct_in, pct_periods, pct_out,
    children,             \* the child categories FRED lists for each category
    categories_to_visit,  \* the stack of the crawl
    visited,
    requests,             \* the series and children requests made for each category
    all_data              \* the series recorded, each named by its category

runVars == <<pc, status, world, start, end, cache, nfetch, df, df_fed, df_unemp,
             df_gdp, df_cpi, region, selected_series, use_zscore, df_list,
             failed_series, df_to_plot, idx, charted, fetch_failed>>

pctVars == <<pct_in, pct_periods, pct_out>>

metaVars == <<children, categories_to_visit, visited, requests, all_data>>

vars == <<runVars, pct_fill, pctVars, metaVars>>

IdlePct == pct_in = << >> /\ pct_periods = 0 /\ pct_out = << >>

IdleMeta ==
    /\ children = << >>
    /\ categories_to_visit = << >>
    /\ visited = {}
    /\ requests = << >>
    /\ all_data = << >>

IdleRun ==
    /\ status = "running"
    /\ start = 1 /\ end = 1
    /\ cache = {}
    /\ nfetch = [f \in 1..2 |-> 0]
    /\ df = EmptyFrame /\ df_fed = EmptyFrame /\ df_unemp = EmptyFrame
    /\ df_gdp = EmptyFrame /\ df_cpi = EmptyFrame
    /\ region = "National" /\ selected_series = << >> /\ use_zscore = FALSE
    /\ df_list = << >> /\ failed_series = << >> /\ df_to_plot = EmptyFrame
    /\ idx = 1
    /\ charted = EmptyFrame
    /\ fetch_failed = {}

\* the script starts at its first date input with nothing loaded
Init ==
    /\ pc = "date_input_1"
    /\ world \in Worlds
    /\ pct_fill = "pad"
    /\ IdleRun /\ IdlePct /\ IdleMeta

(***************************************************************************)
(* load_fred_series under st.cache_data(ttl=3600).                         *)
(***************************************************************************)
\* the call returns: the entry is served from the cache, or it is absent or has
\* expired and fred.get_series fetches it
LoadReturns(fn, id) ==
    \/ /\ <<fn, id, start, end>> \in cache
       /\ UNCHANGED <<cache, nfetch>>
    \/ /\ cache' = cache \cup {<<fn, id, start, end>>}
       /\ nfetch' = [nfetch EXCEPT ![fn] = @ + 1]

\* the call raises: fred.get_series was called and failed; nothing is cached
LoadRaises(fn) ==
    /\ nfetch' = [nfetch EXCEPT ![fn] = @ + 1]
    /\ UNCHANGED cache

\* the frame load_fred_series of the first dashboard returns, lines 80-85
LoadedFirst(id) == ToFrame(GetSeries(world, id, start, end), "Federal Funds Rate")

\* the frame load_fred_series of the region dashboard returns, lines 253-258
LoadedRegion(id) == ToFrame(GetSeries(world, id, start, end), "Value")

\* an exception nothing catches ends the run
Raise(exc) == pc' = "raised" /\ status' = exc

firstFrames == <<df, df_fed, df_unemp, df_gdp, df_cpi>>

regionVars == <<region, selected_series, use_zscore, df_list, failed_series,
                df_to_plot, idx, fetch_failed>>

others == <<world, pct_fill, pctVars, metaVars>>

(***************************************************************************)
(* The first dashboard, lines 68-238.                                      *)
(***************************************************************************)
\* lines 68-76
DateInput1 ==
    /\ pc = "date_input_1"
    /\ \E s, e \in Dates :
        /\ start' = s /\ end' = e
        /\ IF RangeInvalid(s, e)
           THEN pc' = "stop_76" /\ status' = "Start date must be before end date."
           ELSE pc' = "load_df" /\ status' = status
    /\ UNCHANGED <<cache, nfetch, firstFrames, regionVars, charted, others>>

\* line 87
LoadDf ==
    /\ pc = "load_df"
    /\ \/ /\ LoadReturns(1, "FEDFUNDS")
          /\ df' = LoadedFirst("FEDFUNDS")
          /\ pc' = "load_fed" /\ status' = status
       \/ /\ LoadRaises(1)
          /\ \E exc \in FetchErrors : Raise(exc)
          /\ df' = df
    /\ UNCHANGED <<start, end, df_fed, df_unemp, df_gdp, df_cpi, regionVars, charted, others>>

\* line 95
LoadFed ==
    /\ pc = "load_fed"
    /\ \/ /\ LoadReturns(1, "FEDFUNDS")
          /\ df_fed' = LoadedFirst("FEDFUNDS")
          /\ pc' = "load_unemp" /\ status' = status
       \/ /\ LoadRaises(1)
          /\ \E exc \in FetchErrors : Raise(exc)
          /\ df_fed' = df_fed
    /\ UNCHANGED <<start, end, df, df_unemp, df_gdp, df_cpi, regionVars, charted, others>>

\* lines 98-99
LoadUnemp ==
    /\ pc = "load_unemp"
    /\ \/ /\ LoadReturns(1, "UNRATE")
          /\ df_unemp' = Rename(LoadedFirst("UNRATE"), "Federal Funds Rate", "Unemployment Rate")
          /\ pc' = "load_gdp" /\ status' = status
       \/ /\ LoadRaises(1)
          /\ \E exc \in FetchErrors : Raise(exc)
          /\ df_unemp' = df_unemp
    /\ UNCHANGED <<start, end, df, df_fed, df_gdp, df_cpi, regionVars, charted, others>>

\* lines 102-106
LoadGdp ==
    /\ pc = "load_gdp"
    /\ \/ /\ LoadReturns(1, "GDPC1")
          /\ LET gdp == Rename(LoadedFirst("GDPC1"), "Federal Funds Rate", "Real GDP")
             IN  df_gdp' = SetColumn(gdp, "GDP Growth %",
                                     PctChange(Column(gdp, "Real GDP"), GdpLag, pct_fill))
          /\ pc' = "load_cpi" /\ status' = status
       \/ /\ LoadRaises(1)
          /\ \E exc \in FetchErrors : Raise(exc)
          /\ df_gdp' = df_gdp
    /\ UNCHANGED <<start, end, df, df_fed, df_unemp, df_cpi, regionVars, charted, others>>

\* lines 108-110
LoadCpi ==
    /\ pc = "load_cpi"
    /\ \/ /\ LoadReturns(1, "CPIAUCNS")
          /\ LET cpi == LoadedFirst("CPIAUCNS")
             IN  df_cpi' = SetColumn(cpi, "Inflation %",
                                     PctChange(Column(cpi, "Federal Funds Rate"), CpiLag, pct_fill))
          /\ pc' = "merge_1" /\ status' = status
       \/ /\ LoadRaises(1)
          /\ \E exc \in FetchErrors : Raise(exc)
          /\ df_cpi' = df_cpi
    /\ UNCHANGED <<start, end, df, df_fed, df_unemp, df_gdp, regionVars, charted, others>>

\* lines 117-122
MergeFirst ==
    /\ pc = "merge_1"
    /\ df' = SortValues(
                Merge(Merge(Merge(df_fed, df_unemp),
                            Project(df_gdp, "GDP Growth %")),
                      Project(df_cpi, "Inflation %")))
    /\ pc' = "plot_1"
    /\ UNCHANGED <<status, start, end, cache, nfetch, df_fed, df_unemp, df_gdp, df_cpi,
                   regionVars, charted, others>>

\* lines 124-163: df[series] of a label that is no column raises KeyError
PlotFirst ==
    /\ pc = "plot_1"
    /\ \E sel \in Selections(FirstOptions) :
        /\ selected_series' = sel
        /\ IF \A i \in DOMAIN sel : HasColumn(df, sel[i])
           THEN pc' = "metadata" /\ status' = status /\ charted' = df
           ELSE Raise("KeyError") /\ charted' = charted
    /\ UNCHANGED <<start, end, cache, nfetch, firstFrames, region, use_zscore, df_list,
                   failed_series, df_to_plot, idx, fetch_failed, others>>

\* lines 220-238: the button runs get_all_fred_metadata when clicked; the crawl
\* leaves every frame of the pipeline alone
MetadataButton ==
    /\ pc = "metadata"
    /\ \E clicked \in BOOLEAN : pc' = "date_input_2"
    /\ UNCHANGED <<status, start, end, cache, nfetch, firstFrames, regionVars, charted, others>>

(***************************************************************************)
(* The region dashboard, lines 243-414.                                    *)
(***************************************************************************)
\* lines 298-305
DateInput2 ==
    /\ pc = "date_input_2"
    /\ \E s, e \in Dates :
        /\ start' = s /\ end' = e
        /\ IF RangeInvalid(s, e)
           THEN pc' = "stop_305" /\ status' = "Start date must be before end date."
           ELSE pc' = "select" /\ status' = status
    /\ UNCHANGED <<cache, nfetch, firstFrames, regionVars, charted, others>>

\* lines 308-353: series_map[region] of the region whose entry is commented out
\* raises KeyError
Select ==
    /\ pc = "select"
    /\ \E reg \in Range(Regions) :
        /\ region' = reg
        /\ \/ /\ reg \notin DOMAIN series_map
              /\ Raise("KeyError")
              /\ UNCHANGED <<selected_series, use_zscore, df_list, idx>>
           \/ /\ reg \in DOMAIN series_map
              /\ selected_series' \in Selections(SeriesOptions(reg))
              /\ use_zscore' \in BOOLEAN
              /\ df_list' = << >>
              /\ idx' = 1
              /\ pc' = "load_loop_1" /\ status' = status
    /\ UNCHANGED <<start, end, cache, nfetch, firstFrames, failed_series, df_to_plot,
                   fetch_failed, charted, others>>

\* lines 354-358, one pass of the loop: nothing catches what the load raises
LoadLoop1 ==
    /\ pc = "load_loop_1"
    /\ idx <= Len(selected_series)
    /\ LET var == selected_series[idx]
           series_id == SeriesId(region, var)
       IN  \/ /\ LoadReturns(2, series_id)
              /\ df_list' = Append(df_list, Rename(LoadedRegion(series_id), "Value", var))
              /\ idx' = idx + 1
              /\ UNCHANGED <<pc, status, fetch_failed>>
           \/ /\ LoadRaises(2)
              /\ \E exc \in FetchErrors : Raise(exc)
              /\ fetch_failed' = fetch_failed \cup {var}
              /\ UNCHANGED <<df_list, idx>>
    /\ UNCHANGED <<start, end, firstFrames, region, selected_series, use_zscore,
                   failed_series, df_to_plot, charted, others>>

\* line 359, after the first loop
InitFailedSeries ==
    /\ pc = "load_loop_1"
    /\ idx > Len(selected_series)
    /\ failed_series' = << >>
    /\ idx' = 1
    /\ pc' = "load_loop_2"
    /\ UNCHANGED <<status, start, end, cache, nfetch, firstFrames, region, selected_series,
                   use_zscore, df_list, df_to_plot, fetch_failed, charted, others>>

\* lines 361-368, one pass of the loop: only ValueError is caught
LoadLoop2 ==
    /\ pc = "load_loop_2"
    /\ idx <= Len(selected_series)
    /\ LET var == selected_series[idx]
           series_id == SeriesId(region, var)
       IN  \/ /\ LoadReturns(2, series_id)
              /\ df_list' = Append(df_list, Rename(LoadedRegion(series_id), "Value", var))
              /\ idx' = idx + 1
              /\ UNCHANGED <<pc, status, failed_series, fetch_failed>>
           \/ /\ LoadRaises(2)
              /\ failed_series' = Append(failed_series, <<var, series_id, "ValueError">>)
              /\ fetch_failed' = fetch_failed \cup {var}
              /\ idx' = idx + 1
              /\ UNCHANGED <<pc, status, df_list>>
           \/ /\ LoadRaises(2)
              /\ \E exc \in FetchErrors \ {"ValueError"} : Raise(exc)
              /\ fetch_failed' = fetch_failed \cup {var}
              /\ UNCHANGED <<df_list, failed_series, idx>>
    /\ UNCHANGED <<start, end, firstFrames, region, selected_series, use_zscore,
                   df_to_plot, charted, others>>

\* lines 370-377, after the second loop: df is still the first dashboard's table
Normalize ==
    /\ pc = "load_loop_2"
    /\ idx > Len(selected_series)
    /\ df_to_plot' = IF use_zscore THEN ZScore(df) ELSE df
    /\ pc' = "merge_2"
    /\ UNCHANGED <<status, start, end, cache, nfetch, firstFrames, region, selected_series,
                   use_zscore, df_list, failed_series, idx, fetch_failed, charted, others>>

\* a variant that asks for two frames before it merges
NoDataWhenShort(list) == Len(list) < 2

\* not df_list, line 387
NoData(list) == list = << >>

\* lines 380-393: the warnings are written, then the frames are merged or the run stops
MergeRegion ==
    /\ pc = "merge_2"
    /\ IF ~NoData(df_list)
       THEN /\ df' = SortValues(Reduce(df_list))
            /\ pc' = "plot_2" /\ status' = status
       ELSE /\ df' = df
            /\ pc' = "stop_393"
            /\ status' = "No data available for the selected series and date range."
    /\ UNCHANGED <<start, end, cache, nfetch, df_fed, df_unemp, df_gdp, df_cpi,
                   regionVars, charted, others>>

\* lines 395-414: df[series] of a label that is no column raises KeyError
PlotRegion ==
    /\ pc = "plot_2"
    /\ IF \A i \in DOMAIN selected_series : HasColumn(df, selected_series[i])
       THEN pc' = "done" /\ status' = status /\ charted' = df
       ELSE Raise("KeyError") /\ charted' = charted
    /\ UNCHANGED <<start, end, cache, nfetch, firstFrames, regionVars, others>>

Next ==
    \/ DateInput1 \/ LoadDf \/ LoadFed \/ LoadUnemp \/ LoadGdp \/ LoadCpi
    \/ MergeFirst \/ PlotFirst \/ MetadataButton
    \/ DateInput2 \/ Select \/ LoadLoop1 \/ InitFailedSeries \/ LoadLoop2
    \/ Normalize \/ MergeRegion \/ PlotRegion

Spec == Init /\ [][Next]_vars

(***************************************************************************)
(* The claims about a run of the script.                                   *)
(***************************************************************************)
LoadPcs == {"load_df", "load_fed", "load_unemp", "load_gdp", "load_cpi",
            "load_loop_1", "load_loop_2"}

RangeMessage == "Start date must be before end date."

NoDataMessage == "No data available for the selected series and date range."

Selected == Range(selected_series)

\* the labels of the entries of failed_series
FailedLabels == {failed_series[i][1] : i \in DOMAIN failed_series}

\* C1: when some selected series fail to fetch and at least one does not, no
\* fetch error aborts the run, and the table that reaches the plot has exactly
\* the columns of the series that did not fail while failed_series has exactly
\* one entry for each that did.
C1_PartialFetchFailure ==
    (fetch_failed # {} /\ Selected \ fetch_failed # {}) =>
        /\ status \notin FetchErrors
        /\ pc \in {"plot_2", "done"} =>
              /\ Range(df.columns) = Selected \ fetch_failed
              /\ FailedLabels = fetch_failed
              /\ Len(failed_series) = Cardinality(fetch_failed)

\* C2 as stated: a run that is stopped for start > end has made no fetch at all.
C2_NoFetchInRejectedRun ==
    pc \in {"stop_76", "stop_305"} => nfetch[1] + nfetch[2] = 0

\* C2 as amended: a dashboard whose start is after its end stops the run before
\* it makes any fetch of its own, and no load is ever reached with a start after
\* its end; the fetches the first dashboard made with its own valid range stand.
C2_InvalidRangeStopsBeforeOwnFetches ==
    /\ pc = "stop_76" => (start > end /\ nfetch[1] = 0 /\ nfetch[2] = 0)
    /\ pc = "stop_305" => (start > end /\ nfetch[2] = 0)
    /\ pc \in LoadPcs => start <= end

\* C2: the region dashboard rejects its range after the first dashboard fetched.
C2_Witness ==
    /\ pc = "stop_305" /\ status = RangeMessage
    /\ start > end
    /\ nfetch[1] > 0 /\ nfetch[2] = 0

\* C6: the table charted is the z-score of the aligned table of this run when
\* the flag is set and that aligned table itself when it is not, and the
\* normalization that ran was of this run's aligned table.
C6_ChartedIsNormalizedAligned ==
    /\ pc = "done" => charted = IF use_zscore THEN ZScore(df) ELSE df
    /\ (pc \in {"plot_2", "done"} /\ use_zscore) => df_to_plot = ZScore(df)

\* a column whose values that are not NaN are all the same one
Degenerate(xs) ==
    /\ NonNull(xs) # << >>
    /\ \A i, j \in DOMAIN NonNull(xs) : NonNull(xs)[i] = NonNull(xs)[j]

\* C7: once the table has been normalized, every column that is not degenerate
\* holds a z-score wherever it held a value, and a degenerate column has been
\* reported instead of being divided by its zero deviation into NaN.
C7_ZeroVarianceReported ==
    (pc = "merge_2" /\ use_zscore) =>
        \A j \in DOMAIN df.columns :
            LET xs == [r \in DOMAIN df.rows |-> df.rows[r].v[j]]
                zs == [r \in DOMAIN df.rows |-> df_to_plot.rows[r].v[j]]
            IN  IF Degenerate(xs)
                THEN status # "running"
                ELSE \A r \in DOMAIN xs : ~IsNull(xs[r]) => zs[r].k = "sqrt"

\* C8 as stated: an empty df_list never stops the run, and a df_list of one
\* frame is passed through to the plot unchanged.
C8_ShortInputsTolerated ==
    /\ pc = "stop_393" => df_list # << >>
    /\ (pc \in {"plot_2", "done"} /\ Len(df_list) = 1) => df = df_list[1]

\* C8 as amended: the merge step passes a df_list of one frame through
\* unchanged, and with an empty df_list it writes the "No data available"
\* error and stops the run, producing no table.
C8_ShortInputs ==
    [][pc = "merge_2" =>
        /\ Len(df_list) = 1 => (df' = df_list[1] /\ pc' = "plot_2" /\ status' = status)
        /\ df_list = << >> =>
              /\ pc' = "stop_393" /\ status' = NoDataMessage
              /\ df' = df /\ df_to_plot' = df_to_plot /\ charted' = charted]_vars

\* C8: the run was stopped at the merge step because nothing was loaded.
C8_Witness ==
    /\ pc = "stop_393" /\ status = NoDataMessage
    /\ df_list = << >> /\ selected_series = << >>
    /\ HasColumn(df, "Inflation %")

\* C9: every label the plot loop reads is a column of the merged table.
C9_PlottedLabelsAreColumns ==
    pc = "plot_2" => \A i \in DOMAIN selected_series : HasColumn(df, selected_series[i])

(***************************************************************************)
(* pct_change on its own: the series is drawn at the start, then line 106  *)
(* or line 110 derives its column.                                         *)
(***************************************************************************)
\* series of n observations equal to 1 except at up to MaxIrregular places,
\* where the observation is NaN, 0 or 2
PctInputs(n) ==
    UNION {{[i \in 1..n |-> IF i \in P THEN f[i] ELSE Fin(1)] :
                f \in [P -> {NaN, Fin(0), Fin(2)}]} :
           P \in {Q \in SUBSET (1..n) : Cardinality(Q) <= MaxIrregular}}

PctInit ==
    /\ pc = "pct_input"
    /\ pct_periods \in {GdpLag, CpiLag}
    /\ \E n \in (pct_periods + 1)..(pct_periods + MaxExtra) : pct_in \in PctInputs(n)
    /\ pct_fill \in {"pad", "none"}
    /\ pct_out = << >>
    /\ world = << >>
    /\ IdleRun /\ IdleMeta

\* line 106: df_gdp["Real GDP"].pct_change(periods=4) * 100
GdpGrowth ==
    /\ pc = "pct_input" /\ pct_periods = GdpLag
    /\ pct_out' = PctChange(pct_in, GdpLag, pct_fill)
    /\ pc' = "pct_done"
    /\ UNCHANGED <<status, world, start, end, cache, nfetch, firstFrames, regionVars,
                   charted, pct_fill, pct_in, pct_periods, metaVars>>

\* line 110: df_cpi["Federal Funds Rate"].pct_change(periods=12) * 100
CpiInflation ==
    /\ pc = "pct_input" /\ pct_periods = CpiLag
    /\ pct_out' = PctChange(pct_in, CpiLag, pct_fill)
    /\ pc' = "pct_done"
    /\ UNCHANGED <<status, world, start, end, cache, nfetch, firstFrames, regionVars,
                   charted, pct_fill, pct_in, pct_periods, metaVars>>

PctNext == GdpGrowth \/ CpiInflation

PctSpec == PctInit /\ [][PctNext]_vars

\* C5: the derived column has one entry per observation, NaN in the first k,
\* and from there NaN where S[i] or S[i-k] is NaN or S[i-k] is 0 and
\* (S[i] - S[i-k]) / S[i-k] * 100 everywhere else.
C5_PctChange ==
    pc = "pct_done" =>
        /\ Len(pct_out) = Len(pct_in)
        /\ \A i \in DOMAIN pct_in :
            IF i <= pct_periods THEN IsNull(pct_out[i])
            ELSE IF \/ IsNull(pct_in[i]) \/ IsNull(pct_in[i - pct_periods])
                    \/ pct_in[i - pct_periods] = Fin(0)
                 THEN IsNull(pct_out[i])
                 ELSE pct_out[i] =
                        Rat((pct_in[i].n - pct_in[i - pct_periods].n) * 100,
                            pct_in[i - pct_periods].n)

(***************************************************************************)
(* The merge on its own: df_list is drawn at the start as the script can   *)
(* build it, then lines 117-122 or lines 386-390 merge it.                 *)
(***************************************************************************)
\* a series over dates 1..MaxAlignDate: each date is absent, NaN or holds its number
AlignSeries ==
    UNION {{LET ds == SortedSeq(D)
            IN  [i \in DOMAIN ds |->
                    [date |-> ds[i], value |-> IF ds[i] \in N THEN NaN ELSE Fin(ds[i])]] :
                N \in SUBSET D} :
           D \in SUBSET (1..MaxAlignDate)}

\* series_options[:2] of "National", the default selection of line 345
DefaultLabels == SubSeq(SeriesOptions("National"), 1, 2)

\* the labels of df_list after both loading loops: every selected label from
\* the first loop, then those the second loop loaded, in order
RegionNames ==
    {sel \o SelectSeq(sel, LAMBDA l : l \in ok) :
        sel \in {s \in UNION {[1..n -> Range(DefaultLabels)] : n \in 1..2} :
                    \A i, j \in DOMAIN s : i # j => s[i] # s[j]},
        ok \in SUBSET Range(DefaultLabels)}

FramesNamed(names) ==
    UNION {{[i \in DOMAIN names |-> ToFrame(pick[i], names[i])] :
                pick \in [DOMAIN names -> {c1, c2}]} :
           c1 \in AlignSeries, c2 \in AlignSeries}

AlignInit ==
    /\ \/ /\ pc = "align_first"
          /\ df_list \in FramesNamed(FirstOptions)
       \/ /\ pc = "align_region"
          /\ \E names \in RegionNames : df_list \in FramesNamed(names)
    /\ status = "running"
    /\ start = 1 /\ end = 1
    /\ cache = {}
    /\ nfetch = [f \in 1..2 |-> 0]
    /\ df = EmptyFrame /\ df_fed = EmptyFrame /\ df_unemp = EmptyFrame
    /\ df_gdp = EmptyFrame /\ df_cpi = EmptyFrame
    /\ region = "National" /\ selected_series = << >> /\ use_zscore = FALSE
    /\ failed_series = << >> /\ df_to_plot = EmptyFrame
    /\ idx = 1
    /\ charted = EmptyFrame
    /\ fetch_failed = {}
    /\ world = << >>
    /\ pct_fill = "pad"
    /\ IdlePct /\ IdleMeta

\* lines 117-122, on the four frames of the first dashboard
AlignFirst ==
    /\ pc = "align_first"
    /\ df' = SortValues(Merge(Merge(Merge(df_list[1], df_list[2]), df_list[3]), df_list[4]))
    /\ pc' = "aligned"
    /\ UNCHANGED <<status, start, end, cache, nfetch, df_fed, df_unemp, df_gdp, df_cpi,
                   regionVars, charted, others>>

\* lines 386-390, on a df_list that is not empty
AlignRegion ==
    /\ pc = "align_region"
    /\ df' = SortValues(Reduce(df_list))
    /\ pc' = "aligned"
    /\ UNCHANGED <<status, start, end, cache, nfetch, df_fed, df_unemp, df_gdp, df_cpi,
                   regionVars, charted, others>>

AlignNext == AlignFirst \/ AlignRegion

AlignSpec == AlignInit /\ [][AlignNext]_vars

\* the value a frame of one column holds at a date, NaN when it has no such row
ValueAt(frame, date) ==
    IF date \in DatesOf(frame)
    THEN LET r == CHOOSE q \in DOMAIN frame.rows : frame.rows[q].date = date
         IN  frame.rows[r].v[1]
    ELSE NaN

\* C3: the merged table has one row for each date of the union of the frames'
\* dates and no other, in ascending order, and its i-th column holds the i-th
\* frame's value at each date the frame has and NaN at each date it lacks.
C3_OuterJoin ==
    pc = "aligned" =>
        LET dates == UNION {DatesOf(df_list[i]) : i \in DOMAIN df_list}
        IN  /\ DatesOf(df) = dates
            /\ Len(df.rows) = Cardinality(dates)
            /\ \A r \in 1..(Len(df.rows) - 1) : df.rows[r].date < df.rows[r + 1].date
            /\ Len(df.columns) = Len(df_list)
            /\ \A r \in DOMAIN df.rows : \A i \in DOMAIN df_list :
                  df.rows[r].v[i] = ValueAt(df_list[i], df.rows[r].date)

\* C3: a merge of several frames filled a date one of them lacks with NaN.
C3_Witness ==
    /\ pc = "aligned" /\ Len(df_list) >= 2
    /\ \E r \in DOMAIN df.rows : \E i, j \in DOMAIN df_list :
          /\ df.rows[r].date \notin DatesOf(df_list[i])
          /\ IsNull(df.rows[r].v[i])
          /\ IsFinite(df.rows[r].v[j])

\* the pairs of places of df_list whose frames carry the same label
SameName ==
    {p \in (DOMAIN df_list) \X (DOMAIN df_list) :
        p[1] < p[2] /\ df_list[p[1]].columns = df_list[p[2]].columns}

Cats == 0..(NumCats - 1)

\* the category graphs: which category lists which as a child
Graphs ==
    {[c \in Cats |-> SortedSeq({d \in Cats : <<c, d>> \in E})] :
        E \in {F \in SUBSET (Cats \X Cats) : Cardinality(F) <= MaxEdges}}

\* a variant that pushes only the first child listed
ChildIdsFirstOnly(cat) ==
    IF children[cat] = << >> THEN << >> ELSE <<children[cat][1]>>

\* the ids of r["categories"] of the children request, lines 56-61
ChildIds(cat) == children[cat]

MetaInit ==
    /\ pc = "meta_loop"
    /\ children \in Graphs
    /\ categories_to_visit = <<0>>
    /\ visited = {}
    /\ requests = [c \in Cats |-> [series |-> 0, children |-> 0]]
    /\ all_data = << >>
    /\ world = << >>
    /\ pct_fill = "pad"
    /\ IdleRun /\ IdlePct

runIdle == <<status, start, end, cache, nfetch, firstFrames, regionVars, charted>>

Top(stack) == stack[Len(stack)]

Pop(stack) == SubSeq(stack, 1, Len(stack) - 1)

\* lines 33-36: the category popped was visited before
MetaSkip ==
    /\ pc = "meta_loop"
    /\ categories_to_visit # << >>
    /\ Top(categories_to_visit) \in visited
    /\ categories_to_visit' = Pop(categories_to_visit)
    /\ UNCHANGED <<pc, runIdle, world, pct_fill, pctVars, children, visited, requests,
                   all_data>>

\* lines 33-61: the category popped is new: it is marked, its series are
\* requested and recorded, its children are requested and pushed
MetaVisit ==
    /\ pc = "meta_loop"
    /\ categories_to_visit # << >>
    /\ LET cat == Top(categories_to_visit)
       IN  /\ cat \notin visited
           /\ visited' = visited \cup {cat}
           /\ requests' = [requests EXCEPT ![cat] =
                              [series |-> @.series + 1, children |-> @.children + 1]]
           /\ all_data' = Append(all_data, cat)
           /\ categories_to_visit' = Pop(categories_to_visit) \o ChildIds(cat)
    /\ UNCHANGED <<pc, runIdle, world, pct_fill, pctVars, children>>

\* lines 33 and 63-64: nothing is left to visit
MetaReturn ==
    /\ pc = "meta_loop"
    /\ categories_to_visit = << >>
    /\ pc' = "meta_done"
    /\ UNCHANGED <<runIdle, world, pct_fill, pctVars, metaVars>>

MetaNext == MetaSkip \/ MetaVisit \/ MetaReturn

\* the loop is sequential code: while it can take a step it takes one
MetaSpec == MetaInit /\ [][MetaNext]_vars /\ WF_vars(MetaNext)

\* the categories a chain of child links leads to from the root
RECURSIVE ReachableFrom(_)
ReachableFrom(S) ==
    LET more == S \cup UNION {Range(children[c]) : c \in S}
    IN  IF more = S THEN S ELSE ReachableFrom(more)

Reachable == ReachableFrom({0})

\* C10: the crawl ends, no category is requested twice, and when it ends the
\* series and the children of every category reachable from category 0 have
\* been requested exactly once and those of no other category at all.
C10_CrawlTerminatesVisitingOnce ==
    /\ <>(pc = "meta_done")
    /\ [](\A c \in Cats : requests[c].series <= 1 /\ requests[c].children <= 1)
    /\ [](pc = "meta_done" =>
            /\ \A c \in Cats :
                  requests[c] = IF c \in Reachable
                                THEN [series |-> 1, children |-> 1]
                                ELSE [series |-> 0, children |-> 0]
            /\ Range(all_data) = Reachable
            /\ Len(all_data) = Cardinality(Reachable))

\* C10: the crawl ended on a graph with a cycle through reachable categories
\* and a category that two reachable categories list as a child.
C10_Witness ==
    /\ pc = "meta_done"
    /\ \E c \in Reachable : c \in ReachableFrom(Range(children[c])) /\ c \notin Range(children[c])
    /\ \E c \in Reachable : \E a, b \in Reachable :
          a # b /\ a # c /\ b # c /\ c \in Range(children[a]) /\ c \in Range(children[b])

====
